---------------------------- MODULE Spec2Model ----------------------------
(***************************************************************************)
(* Playback controller of Tinnitus Tamer (src/tinnitus_tamer.py).          *)
(*                                                                         *)
(* The program is a single-threaded Qt application: every handler          *)
(* (update_*_vol, update_master_vol, update_freq, update_notch_q,          *)
(* toggle_play) runs to completion on the UI thread, so a handler is one   *)
(* atomic action.  The audio output (pygame / SDL mixer) is a second       *)
(* context: Sound.fadeout(100) only starts a fade and returns, the fade    *)
(* ends later on its own (action FadeEnd).                                 *)
(*                                                                         *)
(* Units.  Volumes are kept in hundredths (the slider integer the handler  *)
(* divides by 100.0), frequencies in Hz, Q as the slider integer.          *)
(* A generated loop buffer is abstracted to the parameter snapshot that    *)
(* generate_noise read to build it; the random samples are not modelled.   *)
(***************************************************************************)
EXTENDS Integers, Sequences, FiniteSets, TLC

(***************************************************************************)
(* Program constants.                                                      *)
(***************************************************************************)
fs == 44100

\* fs / 2.0 in generate_noise: iirnotch gets w0 = tinnitus_freq / (fs / 2.0)
Nyquist == fs \div 2

(***************************************************************************)
(* Bounds of the model.                                                    *)
(***************************************************************************)
\* pipeline runs (generate_noise calls) explored
MaxRuns == 3

\* events the Qt event loop may hold undelivered (specification SpecQueued)
MaxQueue == 2

(***************************************************************************)
(* Input samples.                                                          *)
(***************************************************************************)
Channels == {"white_vol", "pink_vol", "brown_vol", "wind_vol", "ocean_vol", "waterfall_vol"}

\* value a volume slider (range 0..100) is moved to; the defaults are 50
\* (white, master) and 0
SliderValues == {100}

\* values the Notch Q slider (range 1..100) can deliver
QSliderValues == {30, 40}

\* texts of the frequency QLineEdit, as character sequences
FreqTexts == { <<>>,
               <<"4", "0", "0", "0">>,
               <<"a", "b", "c">>,
               <<"3", "0", "0", "0", "0">> }

(***************************************************************************)
(* float(text), for texts made of an optional sign and decimal digits.     *)
(***************************************************************************)
DigitChars == <<"0", "1", "2", "3", "4", "5", "6", "7", "8", "9">>

IsDigit(c) == \E i \in 1..10 : DigitChars[i] = c

DigitVal(c) == (CHOOSE i \in 1..10 : DigitChars[i] = c) - 1

RECURSIVE DigitsValue(_)
DigitsValue(ds) ==
    IF ds = <<>> THEN 0
    ELSE 10 * DigitsValue(SubSeq(ds, 1, Len(ds) - 1)) + DigitVal(ds[Len(ds)])

Unsigned(text) ==
    IF text # <<>> /\ text[1] \in {"-", "+"} THEN Tail(text) ELSE text

\* float(text) raises ValueError
FloatRaises(text) ==
    \/ Unsigned(text) = <<>>
    \/ \E i \in 1..Len(Unsigned(text)) : ~IsDigit(Unsigned(text)[i])

\* float(text) when it does not raise
Float(text) ==
    IF text[1] = "-" THEN 0 - DigitsValue(Unsigned(text))
    ELSE DigitsValue(Unsigned(text))

(***************************************************************************)
(* State.                                                                  *)
(***************************************************************************)
VARIABLES
    vol,            \* self.white_vol .. self.waterfall_vol, by field name
    master_vol,     \* self.master_vol
    tinnitus_freq,  \* self.tinnitus_freq
    notch_q,        \* self.notch_q
    playing,        \* self.playing
    sound,          \* self.sound: the pygame Sound (its id, the parameters its
                    \* buffer was built from, the volume given to set_volume),
                    \* or None
    settings,       \* the QSettings store
    output,         \* the mixer: the id of the buffer looping (0: none) and
                    \* the number of buffers still fading out
    runs,           \* generate_noise calls made so far
    notch,          \* the notch stage of the pipeline run the latest handler
                    \* made: was iirnotch called, and with which frequency
    crashed,        \* an exception left a handler (PyQt aborts the process)
    queue,          \* events posted to the Qt event loop, not yet delivered
    burst           \* bookkeeping of the current burst of queued events

vars == <<vol, master_vol, tinnitus_freq, notch_q, playing, sound, settings,
          output, runs, notch, crashed, queue, burst>>

\* the parameters generate_noise reads
Snapshot == [vol |-> vol, freq |-> tinnitus_freq, q |-> notch_q]

NoParams == [vol |-> [c \in Channels |-> 0], freq |-> 0, q |-> 0]

\* self.sound = None
None == [id |-> 0, from |-> NoParams, volume |-> 0]

\* nothing sounds
Silent == [looping |-> 0, fading |-> 0]

\* the handler ran no pipeline, or the run skipped the notch stage
NoNotch == [called |-> FALSE, freq |-> 0]

NoBurst == [len |-> 0, runs |-> 0, pure |-> FALSE, open |-> FALSE]

(***************************************************************************)
(* __init__: the fields are read from the QSettings store, with the        *)
(* defaults of lines 35-43 for absent keys, and taken as they are.         *)
(***************************************************************************)
DefaultSettings ==
    [vol |-> [c \in Channels |-> IF c = "white_vol" THEN 50 ELSE 0],
     master_vol |-> 50, tinnitus_freq |-> 4000, notch_q |-> 30]

\* stores found at first start: none, or one with keys edited by hand
StoredSettings ==
    { DefaultSettings,
      [DefaultSettings EXCEPT !.master_vol = 150, !.notch_q = 0 - 5] }

Load(s) ==
    /\ vol = s.vol
    /\ master_vol = s.master_vol
    /\ tinnitus_freq = s.tinnitus_freq
    /\ notch_q = s.notch_q
    /\ playing = FALSE
    /\ sound = None
    /\ settings = s

Init ==
    /\ \E s \in StoredSettings : Load(s)
    /\ output = Silent
    /\ runs = 0
    /\ notch = NoNotch
    /\ crashed = FALSE
    /\ queue = <<>>
    /\ burst = NoBurst


(***************************************************************************)
(* The audio output.                                                       *)
(***************************************************************************)
\* Sound.fadeout(100): starts the fade of the buffer and returns at once
\* (a second fadeout of a buffer already fading changes nothing)
fadeout(s, out) ==
    IF out.looping = s.id
    THEN [looping |-> 0, fading |-> out.fading + 1]
    ELSE out

\* the 100 ms of a fade are over: the buffer no longer sounds
FadeEnd ==
    /\ ~crashed
    /\ output.fading > 0
    /\ output' = [output EXCEPT !.fading = @ - 1]
    /\ UNCHANGED <<vol, master_vol, tinnitus_freq, notch_q, playing, sound,
                   settings, runs, notch, crashed, queue, burst>>

(***************************************************************************)
(* The synthesis pipeline, as far as control flow goes.                    *)
(***************************************************************************)
\* scipy's iirnotch(w0, Q) raises ValueError for w0 > 1.0
IirnotchRaises(freq) == 2 * freq > fs

\* generate_noise: the notch is designed whenever tinnitus_freq > 0
generate_noise(P) ==
    [raised |-> P.freq > 0 /\ IirnotchRaises(P.freq),
     notch  |-> IF P.freq > 0 THEN [called |-> TRUE, freq |-> P.freq] ELSE NoNotch,
     buffer |-> P]

(***************************************************************************)
(* stop_sound, play_sound, update_sound.  Each yields the fields it        *)
(* leaves behind; `raised` says an exception left it.  `ok` is whether     *)
(* writing and loading the WAV succeeded (lines 390, 394), `ended` whether *)
(* the fades under way ended while generate_noise was computing.           *)
(***************************************************************************)
\* (self.tmpfile is None whenever a handler starts: play_sound's finally
\* resets it, so stop_sound's unlink branch never runs)
stop_sound(s, out) ==
    [sound |-> None, output |-> IF s # None THEN fadeout(s, out) ELSE out]

play_sound(P, mv, s, out, rn, ok, ended) ==
    LET st   == stop_sound(s, out)
        g    == generate_noise(P)
        out1 == IF ended THEN [st.output EXCEPT !.fading = 0] ELSE st.output
        new  == [id |-> rn + 1, from |-> g.buffer, volume |-> mv]
    IN  IF g.raised
        THEN [raised |-> TRUE, sound |-> st.sound, output |-> out1,
              runs |-> rn + 1, notch |-> g.notch]
        ELSE IF ~ok
        THEN [raised |-> FALSE, sound |-> st.sound, output |-> out1,
              runs |-> rn + 1, notch |-> g.notch]
        ELSE [raised |-> FALSE, sound |-> new,
              output |-> [out1 EXCEPT !.looping = new.id],
              runs |-> rn + 1, notch |-> g.notch]

\* update_sound without its `if self.playing` test
update_sound_unguarded(P, mv, pl, s, out, rn, ok, ended) ==
    play_sound(P, mv, s, IF s # None THEN fadeout(s, out) ELSE out, rn, ok, ended)

update_sound(P, mv, pl, s, out, rn, ok, ended) ==
    IF pl
    THEN play_sound(P, mv, s, IF s # None THEN fadeout(s, out) ELSE out, rn, ok, ended)
    ELSE [raised |-> FALSE, sound |-> s, output |-> out, runs |-> rn, notch |-> NoNotch]

\* the pipeline may run in this step only while the model's budget lasts
CanRun == runs < MaxRuns

\* the tail of a handler that calls update_sound and catches nothing
Regenerate(P, ok, ended) ==
    LET r == update_sound(P, master_vol, playing, sound, output, runs, ok, ended)
    IN  /\ playing => CanRun
        /\ sound' = r.sound
        /\ output' = r.output
        /\ runs' = r.runs
        /\ notch' = r.notch
        /\ crashed' = r.raised
        /\ UNCHANGED playing

(***************************************************************************)
(* The handlers.                                                           *)
(***************************************************************************)
update_vol(c, value, ok, ended) ==
    /\ ~crashed
    /\ vol' = [vol EXCEPT ![c] = value]
    /\ settings' = [settings EXCEPT !.vol[c] = value]
    /\ Regenerate([Snapshot EXCEPT !.vol[c] = value], ok, ended)
    /\ UNCHANGED <<master_vol, tinnitus_freq, notch_q>>

update_white_vol(value, ok, ended) == update_vol("white_vol", value, ok, ended)

update_pink_vol(value, ok, ended) == update_vol("pink_vol", value, ok, ended)

update_brown_vol(value, ok, ended) == update_vol("brown_vol", value, ok, ended)

update_wind_vol(value, ok, ended) == update_vol("wind_vol", value, ok, ended)

update_ocean_vol(value, ok, ended) == update_vol("ocean_vol", value, ok, ended)

update_waterfall_vol(value, ok, ended) == update_vol("waterfall_vol", value, ok, ended)

\* update_master_vol without the set_volume on the live Sound
update_master_vol_unapplied(value) ==
    /\ ~crashed
    /\ master_vol' = value
    /\ settings' = [settings EXCEPT !.master_vol = value]
    /\ notch' = NoNotch
    /\ UNCHANGED <<vol, tinnitus_freq, notch_q, playing, sound, output, runs, crashed>>

update_master_vol(value) ==
    /\ ~crashed
    /\ master_vol' = value
    /\ settings' = [settings EXCEPT !.master_vol = value]
    /\ sound' = IF sound # None THEN [sound EXCEPT !.volume = value] ELSE sound
    /\ notch' = NoNotch
    /\ UNCHANGED <<vol, tinnitus_freq, notch_q, playing, output, runs, crashed>>

update_freq(text, ok, ended) ==
    /\ ~crashed
    /\ IF text # <<>> /\ FloatRaises(text)
       THEN \* float(text) raised: except ValueError
            /\ tinnitus_freq' = 0
            /\ notch' = NoNotch
            /\ UNCHANGED <<settings, playing, sound, output, runs, crashed>>
       ELSE LET f == IF text # <<>> THEN Float(text) ELSE 0
                r == update_sound([Snapshot EXCEPT !.freq = f], master_vol, playing,
                                  sound, output, runs, ok, ended)
            IN  /\ playing => CanRun
                /\ settings' = [settings EXCEPT !.tinnitus_freq = f]
                \* a ValueError out of update_sound lands in the same except
                /\ tinnitus_freq' = IF r.raised THEN 0 ELSE f
                /\ sound' = r.sound
                /\ output' = r.output
                /\ runs' = r.runs
                /\ notch' = r.notch
                /\ UNCHANGED <<playing, crashed>>
    /\ UNCHANGED <<vol, master_vol, notch_q>>

update_notch_q(value, ok, ended) ==
    /\ ~crashed
    /\ notch_q' = value
    /\ settings' = [settings EXCEPT !.notch_q = value]
    /\ Regenerate([Snapshot EXCEPT !.q = value], ok, ended)
    /\ UNCHANGED <<vol, master_vol, tinnitus_freq>>

toggle_play(ok, ended) ==
    /\ ~crashed
    /\ IF playing
       THEN LET st == stop_sound(sound, output)
            IN  /\ sound' = st.sound
                /\ output' = st.output
                /\ playing' = FALSE
                /\ notch' = NoNotch
                /\ UNCHANGED <<runs, crashed>>
       ELSE LET r == play_sound(Snapshot, master_vol, sound, output, runs, ok, ended)
            IN  /\ CanRun
                /\ sound' = r.sound
                /\ output' = r.output
                /\ runs' = r.runs
                /\ notch' = r.notch
                /\ crashed' = r.raised
                \* self.playing = True is reached only if play_sound returned
                /\ playing' = ~r.raised
    /\ UNCHANGED <<vol, master_vol, tinnitus_freq, notch_q, settings>>

\* the process is ended (Quit, or the abort after an escaped exception) and
\* started again: __init__ reads the store the handlers wrote
Relaunch ==
    /\ vol' = settings.vol
    /\ master_vol' = settings.master_vol
    /\ tinnitus_freq' = settings.tinnitus_freq
    /\ notch_q' = settings.notch_q
    /\ playing' = FALSE
    /\ sound' = None
    /\ output' = Silent
    /\ crashed' = FALSE
    /\ notch' = NoNotch
    /\ UNCHANGED <<settings, runs>>

(***************************************************************************)
(* Specification Spec: the user operates one control at a time; each       *)
(* signal is delivered before the next one is raised.                      *)
(***************************************************************************)
\* the outcomes <<ok, ended>> of a pipeline run; one suffices when none runs
Outcomes(run) == IF run THEN BOOLEAN \X BOOLEAN ELSE {<<TRUE, TRUE>>}

Next ==
    \/ \E value \in SliderValues, o \in Outcomes(playing) :
           update_white_vol(value, o[1], o[2]) /\ UNCHANGED <<queue, burst>>
    \/ \E value \in SliderValues, o \in Outcomes(playing) :
           update_pink_vol(value, o[1], o[2]) /\ UNCHANGED <<queue, burst>>
    \/ \E value \in SliderValues, o \in Outcomes(playing) :
           update_brown_vol(value, o[1], o[2]) /\ UNCHANGED <<queue, burst>>
    \/ \E value \in SliderValues, o \in Outcomes(playing) :
           update_wind_vol(value, o[1], o[2]) /\ UNCHANGED <<queue, burst>>
    \/ \E value \in SliderValues, o \in Outcomes(playing) :
           update_ocean_vol(value, o[1], o[2]) /\ UNCHANGED <<queue, burst>>
    \/ \E value \in SliderValues, o \in Outcomes(playing) :
           update_waterfall_vol(value, o[1], o[2]) /\ UNCHANGED <<queue, burst>>
    \/ \E value \in SliderValues :
           update_master_vol(value) /\ UNCHANGED <<queue, burst>>
    \/ \E text \in FreqTexts, o \in Outcomes(playing) :
           update_freq(text, o[1], o[2]) /\ UNCHANGED <<queue, burst>>
    \/ \E value \in QSliderValues, o \in Outcomes(playing) :
           update_notch_q(value, o[1], o[2]) /\ UNCHANGED <<queue, burst>>
    \/ \E o \in Outcomes(~playing) : toggle_play(o[1], o[2]) /\ UNCHANGED <<queue, burst>>
    \/ FadeEnd
    \/ Relaunch /\ UNCHANGED <<queue, burst>>

Spec == Init /\ [][Next]_vars

(***************************************************************************)
(* Specification SpecQueued: the Qt event loop (app.exec_()).  A handler   *)
(* blocks the UI thread for the whole pipeline run, so signals raised      *)
(* meanwhile wait in the event queue and are delivered afterwards, one by  *)
(* one, in order, each to its connected handler.                           *)
(***************************************************************************)
Event(h, value, text) == [h |-> h, value |-> value, text |-> text]

\* the signals raised in this specification
QueuedEvents ==
    { Event("update_freq", 0, <<>>),
      Event("update_freq", 0, <<"4", "0", "0", "0">>),
      Event("update_notch_q", 40, <<>>),
      Event("update_white_vol", 100, <<>>),
      Event("toggle_play", 0, <<>>) }

\* a change of a parameter the pipeline reads
IsContent(e) == e.h \notin {"toggle_play", "update_master_vol"}

\* the slot connected to the signal (lines 168-174, 180, 186, 190)
Deliver(e, ok, ended) ==
    CASE e.h = "update_white_vol"     -> update_white_vol(e.value, ok, ended)
      [] e.h = "update_pink_vol"      -> update_pink_vol(e.value, ok, ended)
      [] e.h = "update_brown_vol"     -> update_brown_vol(e.value, ok, ended)
      [] e.h = "update_wind_vol"      -> update_wind_vol(e.value, ok, ended)
      [] e.h = "update_ocean_vol"     -> update_ocean_vol(e.value, ok, ended)
      [] e.h = "update_waterfall_vol" -> update_waterfall_vol(e.value, ok, ended)
      [] e.h = "update_master_vol"    -> update_master_vol(e.value)
      [] e.h = "update_freq"          -> update_freq(e.text, ok, ended)
      [] e.h = "update_notch_q"       -> update_notch_q(e.value, ok, ended)
      [] e.h = "toggle_play"          -> toggle_play(ok, ended)

\* A burst is the run of signals raised, from an empty queue, before the
\* first of them is delivered.  len counts them, runs the pipeline runs
\* their delivery made; pure says the burst began in Playing with a live
\* buffer, holds content changes only, and nothing was raised after it.
Post(e) ==
    /\ ~crashed
    /\ Len(queue) < MaxQueue
    \* valueChanged / textChanged carry a value other than the last one raised
    /\ IF e.h = "toggle_play" \/ queue = <<>> THEN TRUE ELSE queue[Len(queue)] # e
    /\ queue' = Append(queue, e)
    /\ burst' = IF queue = <<>>
                THEN [len |-> 1, runs |-> 0, open |-> TRUE,
                      pure |-> IsContent(e) /\ playing /\ sound # None]
                ELSE IF burst.open
                THEN [burst EXCEPT !.len = @ + 1, !.pure = @ /\ IsContent(e)]
                ELSE [burst EXCEPT !.pure = FALSE]
    /\ UNCHANGED <<vol, master_vol, tinnitus_freq, notch_q, playing, sound,
                   settings, output, runs, notch, crashed>>

Dispatch(ok, ended) ==
    /\ queue # <<>>
    /\ Deliver(Head(queue), ok, ended)
    /\ queue' = Tail(queue)
    /\ burst' = [burst EXCEPT !.open = FALSE, !.runs = @ + (runs' - runs)]

NextQueued ==
    \/ \E e \in QueuedEvents : Post(e)
    \/ \E o \in Outcomes(TRUE) : Dispatch(o[1], o[2])
    \/ FadeEnd

SpecQueued == Init /\ [][NextQueued]_vars

(***************************************************************************)
(* Properties.                                                             *)
(***************************************************************************)
\* a handler has returned and the process lives
Settled == ~crashed

\* C1: whenever the controller is Playing and no handler is running, the
\* live loop buffer was generated from the stored channel volumes, tinnitus
\* frequency and notch Q.
C1_LatestSnapshotWins ==
    (Settled /\ playing /\ sound # None) => sound.from = Snapshot

\* C2: a burst of two or more content changes raised from Playing before the
\* first is delivered makes one pipeline run, and the buffer left behind is
\* built from the latest parameters.
C2_BurstCoalesced ==
    (Settled /\ queue = <<>> /\ burst.pure /\ burst.len >= 2 /\ sound # None)
        => (burst.runs = 1 /\ sound.from = Snapshot)

\* C3: no exception leaves a handler, whatever the stored parameters and
\* whatever the sequence of toggle_play and parameter updates.
C3_NoExceptionEscapes == ~crashed

\* C4: iirnotch is called only with 0 < tinnitus_freq < fs / 2.
C4_NotchFrequencyValidated ==
    notch.called => (0 < notch.freq /\ notch.freq < Nyquist)

\* C5: the six channel volumes and the master volume are within [0, 1] and
\* the notch Q is > 0 in every state, loaded values included.
C5_ParametersInDomain ==
    /\ \A c \in Channels : vol[c] \in 0..100
    /\ master_vol \in 0..100
    /\ notch_q > 0

\* C6: Play from Idle makes exactly one pipeline run on the parameters stored
\* at that moment, gets a fresh buffer from it, starts it looping at the
\* master volume and leaves the controller Playing.  (Stated for the runs in
\* which writing and loading the WAV succeed.)
C6_PlayFromIdle ==
    [][ (~playing /\ \E ended \in BOOLEAN : toggle_play(TRUE, ended))
            => /\ runs' = runs + 1
               /\ playing'
               /\ sound' # None
               /\ sound'.id = runs'
               /\ sound'.from = Snapshot
               /\ sound'.volume = master_vol
               /\ output'.looping = sound'.id ]_vars

\* C7: Stop from Playing starts the fade of the active buffer, drops the
\* reference to it, leaves the controller Idle and runs no pipeline; while
\* the controller stays Idle no step runs the pipeline.
C7_StopReleasesAndIdleIsQuiet ==
    [][ /\ (playing /\ \E o \in Outcomes(TRUE) : toggle_play(o[1], o[2]))
            => /\ ~playing'
               /\ sound' = None
               /\ runs' = runs
               /\ output'.looping = 0
               /\ sound # None => output'.fading = output.fading + 1
        /\ (~playing /\ ~playing' /\ ~crashed') => runs' = runs ]_vars

\* C7 witness: Idle after a Stop whose fade is still under way, one pipeline
\* run made in all, and the notch Q changed by its slider.
C7_Witness ==
    /\ Settled /\ ~playing /\ sound = None
    /\ output.fading = 1 /\ runs = 1
    /\ notch_q = 40

\* C8: a master-volume change runs no pipeline and leaves the playback
\* state, the live buffer's identity and content, the output and every other
\* parameter as they were; and a live buffer's volume is the stored master
\* volume after every step.
C8_MasterVolumeFastPath ==
    [][ /\ (\E value \in SliderValues : update_master_vol(value))
            => /\ runs' = runs
               /\ playing' = playing
               /\ sound'.id = sound.id
               /\ sound'.from = sound.from
               /\ output' = output
               /\ <<vol, tinnitus_freq, notch_q>>' = <<vol, tinnitus_freq, notch_q>>
        /\ sound' # None => sound'.volume = master_vol' ]_vars

\* C8 witness: Playing with a live buffer, the latest handler ran no pipeline
\* and left the frequency the buffer was built with: the master volume was
\* moved to 100 while the buffer loops.
C8_Witness ==
    /\ Settled /\ playing /\ sound # None
    /\ notch = NoNotch /\ tinnitus_freq = 4000 /\ sound.from.freq = 4000
    /\ master_vol = 100 /\ sound.volume = 100

\* C10: whenever no handler is running, the controller is Playing exactly
\* when a live loop buffer exists.
C10_StateAgreesWithSession ==
    Settled => (playing <=> sound # None)

=============================================================================
